---- MODULE Spec2Model ----
(***************************************************************************)
(* BookStore API (src/app.py): two in-memory tables, books and authors,    *)
(* and the Flask handlers that read and mutate them.  Each handler is one  *)
(* action.  The tables are Python dicts, modelled as insertion-ordered     *)
(* sequences of (key, value) entries.  Prices are in cents.  Timestamps    *)
(* are microseconds since 2024-01-01T00:00:00 (the seed timestamp),        *)
(* stored in the form datetime.isoformat() + "Z" gives them.               *)
(*                                                                         *)
(* Environment assumptions, visible in the definitions below:              *)
(*   - successive readings of datetime.utcnow() never decrease and are     *)
(*     not earlier than the seed timestamp (guard now >= clock);           *)
(*   - uuid.uuid4() never returns a value it returned before, and never a  *)
(*     seed id (uuid4);                                                    *)
(*   - request bodies are JSON objects whose values have the documented    *)
(*     types.                                                              *)
(***************************************************************************)
EXTENDS Integers, Sequences, FiniteSets, TLC

VARIABLES books, authors, clock, issued, req, resp, writes, threads

vars == <<books, authors, clock, issued, req, resp, writes, threads>>

(***************************************************************************)
(* Bounds                                                                  *)
(***************************************************************************)
MaxWrites == 2
NumUuids == 2
NumThreads == 2

(***************************************************************************)
(* Time: utcnow() readings and their isoformat() + "Z" rendering           *)
(***************************************************************************)
MicrosPerSecond == 1000000
ClockGrain == 500000

\* sample readings of utcnow(): the seed instant and half a second later
Instants == {0, ClockGrain}

\* datetime.isoformat() omits the fraction when microsecond = 0
isoformat(t) ==
    IF t % MicrosPerSecond = 0
    THEN [sec |-> t \div MicrosPerSecond]
    ELSE [sec |-> t \div MicrosPerSecond, usec |-> t % MicrosPerSecond]

\* the instant an ISO-8601 string denotes
ParseTs(s) ==
    s.sec * MicrosPerSecond + (IF "usec" \in DOMAIN s THEN s.usec ELSE 0)

TsLeq(a, b) == ParseTs(a) <= ParseTs(b)

SeedTimestamp == [sec |-> 0]

(***************************************************************************)
(* Python dict: insertion-ordered mapping                                  *)
(***************************************************************************)
None == [none |-> TRUE]

DictKeys(d) == {d[i].key : i \in DOMAIN d}

Contains(d, k) == \E i \in DOMAIN d : d[i].key = k

DictGet(d, k) ==
    IF Contains(d, k) THEN d[CHOOSE i \in DOMAIN d : d[i].key = k].value
    ELSE None

DictSet(d, k, v) ==
    IF Contains(d, k)
    THEN [i \in DOMAIN d |-> IF d[i].key = k THEN [key |-> k, value |-> v] ELSE d[i]]
    ELSE Append(d, [key |-> k, value |-> v])

DictDel(d, k) ==
    LET keep(e) == e.key # k IN SelectSeq(d, keep)

DictValues(d) == [i \in DOMAIN d |-> d[i].value]

\* truth value of a dict-or-None in "if not book"
Truthy(v) == v # None /\ DOMAIN v # {}

(***************************************************************************)
(* Seed data                                                               *)
(***************************************************************************)
SeedBooks ==
    << [key |-> "1", value |->
          [id |-> "1", title |-> "The Great Gatsby", author_id |-> "1",
           isbn |-> "978-0-7432-7356-5", published_year |-> 1925,
           price |-> 1299, stock |-> 42,
           created_at |-> SeedTimestamp, updated_at |-> SeedTimestamp]],
       [key |-> "2", value |->
          [id |-> "2", title |-> "To Kill a Mockingbird", author_id |-> "2",
           isbn |-> "978-0-06-112008-4", published_year |-> 1960,
           price |-> 1499, stock |-> 28,
           created_at |-> SeedTimestamp, updated_at |-> SeedTimestamp]],
       [key |-> "3", value |->
          [id |-> "3", title |-> "1984", author_id |-> "3",
           isbn |-> "978-0-452-28423-4", published_year |-> 1949,
           price |-> 1399, stock |-> 35,
           created_at |-> SeedTimestamp, updated_at |-> SeedTimestamp]] >>

SeedAuthors ==
    << [key |-> "1", value |->
          [id |-> "1", name |-> "F. Scott Fitzgerald", birth_year |-> 1896,
           nationality |-> "American",
           created_at |-> SeedTimestamp, updated_at |-> SeedTimestamp]],
       [key |-> "2", value |->
          [id |-> "2", name |-> "Harper Lee", birth_year |-> 1926,
           nationality |-> "American",
           created_at |-> SeedTimestamp, updated_at |-> SeedTimestamp]],
       [key |-> "3", value |->
          [id |-> "3", name |-> "George Orwell", birth_year |-> 1903,
           nationality |-> "British",
           created_at |-> SeedTimestamp, updated_at |-> SeedTimestamp]] >>

SeedIds == {"1", "2", "3"}

(***************************************************************************)
(* Request inputs                                                          *)
(***************************************************************************)
\* str(uuid.uuid4()) values: 36 characters, none of them a seed id
UuidName(i) == CASE i = 1 -> "uuid-a" [] i = 2 -> "uuid-b" [] i = 3 -> "uuid-c"
                 [] OTHER -> "uuid-d"

Uuids == {UuidName(i) : i \in 1..NumUuids}

BookRequired == <<"title", "author_id", "isbn", "published_year", "price">>
AuthorRequired == <<"name", "birth_year", "nationality">>

Range(s) == {s[i] : i \in DOMAIN s}

BookFields == Range(BookRequired) \cup {"stock"}
AuthorFields == Range(AuthorRequired)
Extras == {"id", "created_at", "updated_at"}

\* value a client sends under key k
PayloadValue(k) ==
    CASE k = "title" -> "Dune"
      [] k = "author_id" -> "1"
      [] k = "isbn" -> "978-0-441-17271-9"
      [] k = "published_year" -> 1965
      [] k = "price" -> 1350
      [] k = "stock" -> 5
      [] k = "id" -> "forged"
      [] k = "created_at" -> [sec |-> 7]
      [] k = "updated_at" -> [sec |-> 8]
      [] k = "name" -> "Frank Herbert"
      [] k = "birth_year" -> 1920
      [] k = "nationality" -> "American"

Payload(K) == [k \in K |-> PayloadValue(k)]

\* bodies sent to POST /books and PUT /books/{id}
BookPayloads ==
    { Payload(K) : K \in
        { {}, Range(BookRequired), Range(BookRequired) \cup {"stock"},
          BookFields \cup Extras }
        \cup { Range(BookRequired) \ {k} : k \in Range(BookRequired) } }

\* bodies sent to PATCH /books/{id}
PatchPayloads ==
    { Payload(K) : K \in
        { {}, {"stock"}, {"title", "isbn"} \cup Extras,
          {"author_id", "published_year", "price", "stock"} } }

\* bodies sent to POST /authors and PUT /authors/{id}
AuthorPayloads ==
    { Payload(K) : K \in
        { {}, Range(AuthorRequired), Range(AuthorRequired) \cup Extras }
        \cup { Range(AuthorRequired) \ {k} : k \in Range(AuthorRequired) } }

(***************************************************************************)
(* Responses and validation                                                *)
(***************************************************************************)
NoData == <<>>
NoArgs == [author_id |-> <<>>, min_price |-> <<>>, max_price |-> <<>>]
EmptyBody == [text |-> ""]

Request(op, id, data, args) == [op |-> op, id |-> id, data |-> data, args |-> args]

\* what a handler returns and whether it wrote a table / read the clock
Reply(t, status, body, wrote, stamped) ==
    [table |-> t, resp |-> [status |-> status, body |-> body],
     wrote |-> wrote, stamped |-> stamped]

NotFound(t, resource) ==
    Reply(t, 404, [error |-> resource \o " not found"], FALSE, FALSE)

MissingError(field) == [error |-> "Missing required field: " \o field]

\* mutant: reports the last missing field instead of the first
FirstMissing_last(required_fields, data) ==
    LET miss == {i \in DOMAIN required_fields : required_fields[i] \notin DOMAIN data}
    IN  IF miss = {} THEN <<>>
        ELSE <<required_fields[CHOOSE i \in miss : \A j \in miss : i >= j]>>

\* the loop "for field in required_fields: if field not in data: return"
FirstMissing(required_fields, data) ==
    LET miss == {i \in DOMAIN required_fields : required_fields[i] \notin DOMAIN data}
    IN  IF miss = {} THEN <<>>
        ELSE <<required_fields[CHOOSE i \in miss : \A j \in miss : i <= j]>>

\* data.get(key, default)
GetOr(data, key, default) == IF key \in DOMAIN data THEN data[key] ELSE default

(***************************************************************************)
(* Book handlers                                                           *)
(***************************************************************************)
\* request.args.get(name, type=float): None when absent or not a number
ToFloat(raw) ==
    IF raw = <<>> THEN <<>>
    ELSE CASE raw[1] = "13" -> <<1300>>
           [] raw[1] = "14" -> <<1400>>
           [] raw[1] = "0" -> <<0>>
           [] OTHER -> <<>>

do_get_books(bks, args) ==
    LET author_id == args.author_id
        min_price == ToFloat(args.min_price)
        max_price == ToFloat(args.max_price)
        all == DictValues(bks)
        byAuthor(b) == b.author_id = author_id[1]
        f1 == IF author_id # <<>> /\ author_id[1] # ""
              THEN SelectSeq(all, byAuthor) ELSE all
        byMin(b) == b.price >= min_price[1]
        f2 == IF min_price # <<>> THEN SelectSeq(f1, byMin) ELSE f1
        byMax(b) == b.price <= max_price[1]
        f3 == IF max_price # <<>> THEN SelectSeq(f2, byMax) ELSE f2
    IN  Reply(bks, 200, [books |-> f3, count |-> Len(f3)], FALSE, FALSE)

do_get_book(bks, book_id) ==
    LET book == DictGet(bks, book_id)
    IN  IF ~Truthy(book) THEN NotFound(bks, "Book")
        ELSE Reply(bks, 200, book, FALSE, FALSE)

do_create_book(bks, data, book_id, now) ==
    LET missing == FirstMissing(BookRequired, data)
    IN  IF missing # <<>>
        THEN Reply(bks, 400, MissingError(missing[1]), FALSE, FALSE)
        ELSE LET timestamp == isoformat(now)
                 new_book == [id |-> book_id,
                              title |-> data["title"],
                              author_id |-> data["author_id"],
                              isbn |-> data["isbn"],
                              published_year |-> data["published_year"],
                              price |-> data["price"],
                              stock |-> GetOr(data, "stock", 0),
                              created_at |-> timestamp,
                              updated_at |-> timestamp]
             IN  Reply(DictSet(bks, book_id, new_book), 201, new_book, TRUE, TRUE)

\* mutant: validates the payload before looking the id up
do_update_book_validates_first(bks, book_id, data, now) ==
    LET missing == FirstMissing(BookRequired, data)
    IN  IF missing # <<>>
        THEN Reply(bks, 400, MissingError(missing[1]), FALSE, FALSE)
        ELSE IF ~Contains(bks, book_id) THEN NotFound(bks, "Book")
        ELSE LET created_at == DictGet(bks, book_id).created_at
                 updated_book == [id |-> book_id,
                                  title |-> data["title"],
                                  author_id |-> data["author_id"],
                                  isbn |-> data["isbn"],
                                  published_year |-> data["published_year"],
                                  price |-> data["price"],
                                  stock |-> GetOr(data, "stock", 0),
                                  created_at |-> created_at,
                                  updated_at |-> isoformat(now)]
             IN  Reply(DictSet(bks, book_id, updated_book), 200,
                       updated_book, TRUE, TRUE)

\* mutant: stamps created_at anew instead of preserving it
do_update_book_restamps_created(bks, book_id, data, now) ==
    IF ~Contains(bks, book_id) THEN NotFound(bks, "Book")
    ELSE LET missing == FirstMissing(BookRequired, data)
         IN  IF missing # <<>>
             THEN Reply(bks, 400, MissingError(missing[1]), FALSE, FALSE)
             ELSE LET updated_book == [id |-> book_id,
                                       title |-> data["title"],
                                       author_id |-> data["author_id"],
                                       isbn |-> data["isbn"],
                                       published_year |-> data["published_year"],
                                       price |-> data["price"],
                                       stock |-> GetOr(data, "stock", 0),
                                       created_at |-> isoformat(now),
                                       updated_at |-> isoformat(now)]
                  IN  Reply(DictSet(bks, book_id, updated_book), 200,
                            updated_book, TRUE, TRUE)

\* mutant: takes the id of the stored record from the payload when it has one
do_update_book_id_from_payload(bks, book_id, data, now) ==
    IF ~Contains(bks, book_id) THEN NotFound(bks, "Book")
    ELSE LET missing == FirstMissing(BookRequired, data)
         IN  IF missing # <<>>
             THEN Reply(bks, 400, MissingError(missing[1]), FALSE, FALSE)
             ELSE LET created_at == DictGet(bks, book_id).created_at
                      updated_book == [id |-> GetOr(data, "id", book_id),
                                       title |-> data["title"],
                                       author_id |-> data["author_id"],
                                       isbn |-> data["isbn"],
                                       published_year |-> data["published_year"],
                                       price |-> data["price"],
                                       stock |-> GetOr(data, "stock", 0),
                                       created_at |-> created_at,
                                       updated_at |-> isoformat(now)]
                  IN  Reply(DictSet(bks, book_id, updated_book), 200,
                            updated_book, TRUE, TRUE)

\* mutant: a PUT without stock keeps the stock the record had
do_update_book_keeps_stock(bks, book_id, data, now) ==
    IF ~Contains(bks, book_id) THEN NotFound(bks, "Book")
    ELSE LET missing == FirstMissing(BookRequired, data)
         IN  IF missing # <<>>
             THEN Reply(bks, 400, MissingError(missing[1]), FALSE, FALSE)
             ELSE LET old == DictGet(bks, book_id)
                      updated_book == [id |-> book_id,
                                       title |-> data["title"],
                                       author_id |-> data["author_id"],
                                       isbn |-> data["isbn"],
                                       published_year |-> data["published_year"],
                                       price |-> data["price"],
                                       stock |-> GetOr(data, "stock", old.stock),
                                       created_at |-> old.created_at,
                                       updated_at |-> isoformat(now)]
                  IN  Reply(DictSet(bks, book_id, updated_book), 200,
                            updated_book, TRUE, TRUE)

do_update_book(bks, book_id, data, now) ==
    IF ~Contains(bks, book_id) THEN NotFound(bks, "Book")
    ELSE LET missing == FirstMissing(BookRequired, data)
         IN  IF missing # <<>>
             THEN Reply(bks, 400, MissingError(missing[1]), FALSE, FALSE)
             ELSE LET created_at == DictGet(bks, book_id).created_at
                      updated_book == [id |-> book_id,
                                       title |-> data["title"],
                                       author_id |-> data["author_id"],
                                       isbn |-> data["isbn"],
                                       published_year |-> data["published_year"],
                                       price |-> data["price"],
                                       stock |-> GetOr(data, "stock", 0),
                                       created_at |-> created_at,
                                       updated_at |-> isoformat(now)]
                  IN  Reply(DictSet(bks, book_id, updated_book), 200,
                            updated_book, TRUE, TRUE)

\* mutant: restamps updated_at only when the payload changes something
do_partial_update_book_stamps_on_change(bks, book_id, data, now) ==
    IF ~Contains(bks, book_id) THEN NotFound(bks, "Book")
    ELSE LET book == DictGet(bks, book_id)
             patched == [book EXCEPT
                 !.title = GetOr(data, "title", @),
                 !.author_id = GetOr(data, "author_id", @),
                 !.isbn = GetOr(data, "isbn", @),
                 !.published_year = GetOr(data, "published_year", @),
                 !.price = GetOr(data, "price", @),
                 !.stock = GetOr(data, "stock", @),
                 !.updated_at = IF DOMAIN data = {} THEN @ ELSE isoformat(now)]
         IN  Reply(DictSet(bks, book_id, patched), 200, patched, TRUE, TRUE)

\* mutant: book.update(data), every key of the payload lands in the record
do_partial_update_book_merges_all(bks, book_id, data, now) ==
    IF ~Contains(bks, book_id) THEN NotFound(bks, "Book")
    ELSE LET book == DictGet(bks, book_id)
             merged == [f \in DOMAIN book |-> GetOr(data, f, book[f])]
             patched == [merged EXCEPT !.updated_at = isoformat(now)]
         IN  Reply(DictSet(bks, book_id, patched), 200, patched, TRUE, TRUE)

do_partial_update_book(bks, book_id, data, now) ==
    IF ~Contains(bks, book_id) THEN NotFound(bks, "Book")
    ELSE LET book == DictGet(bks, book_id)
             patched == [book EXCEPT
                 !.title = GetOr(data, "title", @),
                 !.author_id = GetOr(data, "author_id", @),
                 !.isbn = GetOr(data, "isbn", @),
                 !.published_year = GetOr(data, "published_year", @),
                 !.price = GetOr(data, "price", @),
                 !.stock = GetOr(data, "stock", @),
                 !.updated_at = isoformat(now)]
         IN  Reply(DictSet(bks, book_id, patched), 200, patched, TRUE, TRUE)

\* mutant: books.popitem(), removes the newest record instead of the named one
do_delete_book_pops_last(bks, book_id) ==
    IF ~Contains(bks, book_id) THEN NotFound(bks, "Book")
    ELSE Reply(SubSeq(bks, 1, Len(bks) - 1), 204, EmptyBody, TRUE, FALSE)

do_delete_book(bks, book_id) ==
    IF ~Contains(bks, book_id) THEN NotFound(bks, "Book")
    ELSE Reply(DictDel(bks, book_id), 204, EmptyBody, TRUE, FALSE)

(***************************************************************************)
(* Author handlers                                                         *)
(***************************************************************************)
do_get_authors(aus) ==
    Reply(aus, 200, [authors |-> DictValues(aus), count |-> Len(aus)], FALSE, FALSE)

do_get_author(aus, author_id) ==
    LET author == DictGet(aus, author_id)
    IN  IF ~Truthy(author) THEN NotFound(aus, "Author")
        ELSE Reply(aus, 200, author, FALSE, FALSE)

do_create_author(aus, data, author_id, now) ==
    LET missing == FirstMissing(AuthorRequired, data)
    IN  IF missing # <<>>
        THEN Reply(aus, 400, MissingError(missing[1]), FALSE, FALSE)
        ELSE LET timestamp == isoformat(now)
                 new_author == [id |-> author_id,
                                name |-> data["name"],
                                birth_year |-> data["birth_year"],
                                nationality |-> data["nationality"],
                                created_at |-> timestamp,
                                updated_at |-> timestamp]
             IN  Reply(DictSet(aus, author_id, new_author), 201, new_author,
                       TRUE, TRUE)

do_update_author(aus, author_id, data, now) ==
    IF ~Contains(aus, author_id) THEN NotFound(aus, "Author")
    ELSE LET missing == FirstMissing(AuthorRequired, data)
         IN  IF missing # <<>>
             THEN Reply(aus, 400, MissingError(missing[1]), FALSE, FALSE)
             ELSE LET created_at == DictGet(aus, author_id).created_at
                      updated_author == [id |-> author_id,
                                         name |-> data["name"],
                                         birth_year |-> data["birth_year"],
                                         nationality |-> data["nationality"],
                                         created_at |-> created_at,
                                         updated_at |-> isoformat(now)]
                  IN  Reply(DictSet(aus, author_id, updated_author), 200,
                            updated_author, TRUE, TRUE)

do_delete_author(aus, author_id) ==
    IF ~Contains(aus, author_id) THEN NotFound(aus, "Author")
    ELSE Reply(DictDel(aus, author_id), 204, EmptyBody, TRUE, FALSE)

\* mutant: matches the book's own id instead of its author_id
do_get_author_books_by_book_id(aus, bks, author_id) ==
    LET author == DictGet(aus, author_id)
    IN  IF ~Truthy(author) THEN NotFound(aus, "Author")
        ELSE LET mine(book) == book.id = author_id
                 author_books == SelectSeq(DictValues(bks), mine)
             IN  Reply(aus, 200,
                       [author |-> author, books |-> author_books,
                        count |-> Len(author_books)], FALSE, FALSE)

do_get_author_books(aus, bks, author_id) ==
    LET author == DictGet(aus, author_id)
    IN  IF ~Truthy(author) THEN NotFound(aus, "Author")
        ELSE LET mine(book) == book.author_id = author_id
                 author_books == SelectSeq(DictValues(bks), mine)
             IN  Reply(aus, 200,
                       [author |-> author, books |-> author_books,
                        count |-> Len(author_books)], FALSE, FALSE)

(***************************************************************************)
(* The running service                                                     *)
(***************************************************************************)
\* no request is being served: the last response has been sent
NoRequest == Request("", "", NoData, NoArgs)
NoResponse == [status |-> 0, body |-> EmptyBody]

\* ids a client puts in a path: seed ids, ids a Create returned, one unknown id
PathIds == SeedIds \cup issued \cup {"no-such-id"}

\* mutant: an id generator that returns the same value on every call
uuid4_constant == {UuidName(1)}

\* values uuid.uuid4() may return: one not returned before.  Handlers only
\* compare ids for equality, so the first unused name stands for any of them.
uuid4 == {UuidName(Cardinality(issued) + 1)} \cap Uuids

\* the threads of the server, one per request in flight
Threads == 1..NumThreads

\* a thread that has no request: its locals are unset
IdleThread ==
    [pc |-> "idle", op |-> "", id |-> "", data |-> NoData,
     created_at |-> <<>>, updated_book |-> <<>>,
     alias |-> FALSE, book |-> <<>>, owner |-> 0, field |-> 0,
     resp |-> NoResponse]

Init ==
    /\ threads = [t \in Threads |-> IdleThread]
    /\ books = SeedBooks
    /\ authors = SeedAuthors
    /\ clock = 0
    /\ issued = {}
    /\ req = NoRequest
    /\ resp = NoResponse
    /\ writes = 0

\* a handler of the books table returned r at time now
BooksStep(r, now, request) ==
    /\ resp = NoResponse
    /\ r.wrote => writes < MaxWrites
    /\ now >= clock
    /\ books' = r.table
    /\ resp' = r.resp
    /\ req' = request
    /\ clock' = IF r.stamped THEN now ELSE clock
    /\ writes' = IF r.wrote THEN writes + 1 ELSE writes
    /\ UNCHANGED <<authors, threads>>

\* mutant: deleting an author also removes the books that name it
AuthorsStep_cascade(r, now, request) ==
    /\ resp = NoResponse
    /\ r.wrote => writes < MaxWrites
    /\ now >= clock
    /\ authors' = r.table
    /\ resp' = r.resp
    /\ req' = request
    /\ clock' = IF r.stamped THEN now ELSE clock
    /\ writes' = IF r.wrote THEN writes + 1 ELSE writes
    /\ books' = IF request.op = "delete_author" /\ r.wrote
                THEN LET keep(e) == e.value.author_id # request.id
                     IN  SelectSeq(books, keep)
                ELSE books
    /\ UNCHANGED threads

\* a handler of the authors table returned r at time now
AuthorsStep(r, now, request) ==
    /\ resp = NoResponse
    /\ r.wrote => writes < MaxWrites
    /\ now >= clock
    /\ authors' = r.table
    /\ resp' = r.resp
    /\ req' = request
    /\ clock' = IF r.stamped THEN now ELSE clock
    /\ writes' = IF r.wrote THEN writes + 1 ELSE writes
    /\ UNCHANGED <<books, threads>>

get_books(args) ==
    /\ BooksStep(do_get_books(books, args), clock, Request("get_books", "", NoData, args))
    /\ UNCHANGED issued

get_book(book_id) ==
    /\ BooksStep(do_get_book(books, book_id), clock,
                 Request("get_book", book_id, NoData, NoArgs))
    /\ UNCHANGED issued

create_book(data) ==
    \E now \in Instants :
        IF FirstMissing(BookRequired, data) # <<>>
        THEN /\ BooksStep(do_create_book(books, data, "", now), now,
                          Request("create_book", "", data, NoArgs))
             /\ UNCHANGED issued
        ELSE \E book_id \in uuid4 :
                /\ BooksStep(do_create_book(books, data, book_id, now), now,
                             Request("create_book", "", data, NoArgs))
                /\ issued' = issued \cup {book_id}

update_book(book_id, data) ==
    \E now \in Instants :
        /\ BooksStep(do_update_book(books, book_id, data, now), now,
                     Request("update_book", book_id, data, NoArgs))
        /\ UNCHANGED issued

partial_update_book(book_id, data) ==
    \E now \in Instants :
        /\ BooksStep(do_partial_update_book(books, book_id, data, now), now,
                     Request("partial_update_book", book_id, data, NoArgs))
        /\ UNCHANGED issued

delete_book(book_id) ==
    /\ BooksStep(do_delete_book(books, book_id), clock,
                 Request("delete_book", book_id, NoData, NoArgs))
    /\ UNCHANGED issued

get_authors ==
    /\ AuthorsStep(do_get_authors(authors), clock,
                   Request("get_authors", "", NoData, NoArgs))
    /\ UNCHANGED issued

get_author(author_id) ==
    /\ AuthorsStep(do_get_author(authors, author_id), clock,
                   Request("get_author", author_id, NoData, NoArgs))
    /\ UNCHANGED issued

create_author(data) ==
    \E now \in Instants :
        IF FirstMissing(AuthorRequired, data) # <<>>
        THEN /\ AuthorsStep(do_create_author(authors, data, "", now), now,
                            Request("create_author", "", data, NoArgs))
             /\ UNCHANGED issued
        ELSE \E author_id \in uuid4 :
                /\ AuthorsStep(do_create_author(authors, data, author_id, now), now,
                               Request("create_author", "", data, NoArgs))
                /\ issued' = issued \cup {author_id}

update_author(author_id, data) ==
    \E now \in Instants :
        /\ AuthorsStep(do_update_author(authors, author_id, data, now), now,
                       Request("update_author", author_id, data, NoArgs))
        /\ UNCHANGED issued

delete_author(author_id) ==
    /\ AuthorsStep(do_delete_author(authors, author_id), clock,
                   Request("delete_author", author_id, NoData, NoArgs))
    /\ UNCHANGED issued

get_author_books(author_id) ==
    /\ AuthorsStep(do_get_author_books(authors, books, author_id), clock,
                   Request("get_author_books", author_id, NoData, NoArgs))
    /\ UNCHANGED issued

\* the response goes out; requests are served one at a time
send_response ==
    /\ resp # NoResponse
    /\ resp' = NoResponse
    /\ req' = NoRequest
    /\ UNCHANGED <<books, authors, clock, issued, writes, threads>>

AuthorIdArgs == {<<>>, <<"">>, <<"1">>}
MinPriceArgs == {<<>>, <<"13">>, <<"abc">>}
MaxPriceArgs == {<<>>, <<"14">>}

QueryArgs ==
    [author_id : AuthorIdArgs, min_price : MinPriceArgs, max_price : MaxPriceArgs]

Next ==
    \/ \E args \in QueryArgs : get_books(args)
    \/ \E book_id \in PathIds : get_book(book_id)
    \/ \E data \in BookPayloads : create_book(data)
    \/ \E book_id \in PathIds, data \in BookPayloads : update_book(book_id, data)
    \/ \E book_id \in PathIds, data \in PatchPayloads : partial_update_book(book_id, data)
    \/ \E book_id \in PathIds : delete_book(book_id)
    \/ get_authors
    \/ \E author_id \in PathIds : get_author(author_id)
    \/ \E data \in AuthorPayloads : create_author(data)
    \/ \E author_id \in PathIds, data \in AuthorPayloads : update_author(author_id, data)
    \/ \E author_id \in PathIds : delete_author(author_id)
    \/ \E author_id \in PathIds : get_author_books(author_id)
    \/ send_response

Spec == Init /\ [][Next]_vars

(***************************************************************************)
(* Threaded serving.  app.run() starts the development server, which       *)
(* serves each request in a thread of its own, and the handlers take no    *)
(* lock, so a thread switch can fall between any two statements that touch *)
(* the books table.  Each thread serves one request; there is one action   *)
(* per statement that reads or writes the table, the dict stored in it, or *)
(* the clock.  Statements that touch only locals are joined to the         *)
(* statement before them.                                                  *)
(***************************************************************************)
\* books[book_id] and del books[book_id] raise KeyError when the key is gone;
\* Flask answers an uncaught exception with 500
KeyError == [status |-> 500, body |-> [error |-> "Internal Server Error"]]

\* the order in which partial_update_book tests the keys of the payload
PatchOrder == BookRequired \o <<"stock">>

\* position of the first key, at i or later, that the payload carries; 0 when
\* there is none
NextField(data, i) ==
    LET later == {j \in DOMAIN PatchOrder : j >= i /\ PatchOrder[j] \in DOMAIN data}
    IN  IF later = {} THEN 0 ELSE CHOOSE j \in later : \A k \in later : j <= k

\* the thread has returned response; its locals are gone
Returned(th, response) ==
    [IdleThread EXCEPT !.pc = "done", !.op = th.op, !.id = th.id,
                       !.data = th.data, !.resp = response]

\* thread u's local `book` is the very dict stored under book_id
Aliases(u, book_id) == threads[u].alias /\ threads[u].id = book_id

\* the dict thread t's local `book` refers to
Book(t) ==
    IF threads[t].alias THEN DictGet(books, threads[t].id) ELSE threads[t].book[1]

\* thread t takes the dict stored under book_id out of the table and goes on
\* as `mine`; the threads whose `book` is that dict still hold it
Unlink(t, book_id, mine) ==
    [u \in Threads |->
        IF u = t THEN mine
        ELSE IF Aliases(u, book_id)
             THEN [threads[u] EXCEPT !.alias = FALSE,
                                     !.book = <<DictGet(books, book_id)>>,
                                     !.owner = t]
             ELSE threads[u]]

\* book[key] = value in thread t, which goes on as `mine`: the item is set in
\* the dict `book` refers to, whether or not the table still holds that dict
SetItem(t, key, value, mine) ==
    IF threads[t].alias
    THEN /\ books' = DictSet(books, threads[t].id, [Book(t) EXCEPT ![key] = value])
         /\ threads' = [threads EXCEPT ![t] = mine]
    ELSE /\ books' = books
         /\ threads' =
               [u \in Threads |->
                   IF u = t
                   THEN [mine EXCEPT !.book = <<[Book(t) EXCEPT ![key] = value]>>]
                   ELSE IF /\ threads[u].book # <<>>
                           /\ threads[u].owner = threads[t].owner
                        THEN [threads[u] EXCEPT
                                 !.book = <<[threads[u].book[1] EXCEPT ![key] = value]>>]
                        ELSE threads[u]]

\* thread t is at statement pc of handler op
At(t, op, pc) == threads[t].op = op /\ threads[t].pc = pc

\* Flask routes a request to its handler, in a thread of its own
dispatch(t, op, book_id, data) ==
    /\ threads[t].pc = "idle"
    /\ threads' = [threads EXCEPT ![t] =
                      [IdleThread EXCEPT !.pc = "exists", !.op = op,
                                         !.id = book_id, !.data = data]]
    /\ UNCHANGED <<books, authors, clock, issued, req, resp, writes>>

\* "if book_id not in books", then get_json and the required_fields loop
update_book_exists(t) ==
    LET th == threads[t]
        missing == FirstMissing(BookRequired, th.data)
    IN  /\ At(t, "update_book", "exists")
        /\ threads' = [threads EXCEPT ![t] =
              IF ~Contains(books, th.id)
              THEN Returned(th, NotFound(books, "Book").resp)
              ELSE IF missing # <<>>
                   THEN Returned(th, [status |-> 400, body |-> MissingError(missing[1])])
                   ELSE [th EXCEPT !.pc = "created_at"]]
        /\ UNCHANGED <<books, authors, clock, issued, req, resp, writes>>

\* "created_at = books[book_id]['created_at']"
update_book_created_at(t) ==
    LET th == threads[t]
    IN  /\ At(t, "update_book", "created_at")
        /\ threads' = [threads EXCEPT ![t] =
              IF ~Contains(books, th.id)
              THEN Returned(th, KeyError)
              ELSE [th EXCEPT !.created_at = <<DictGet(books, th.id).created_at>>,
                              !.pc = "updated_book"]]
        /\ UNCHANGED <<books, authors, clock, issued, req, resp, writes>>

\* "updated_book = {...}", which reads the clock
update_book_updated_book(t) ==
    LET th == threads[t]
        data == th.data
    IN  /\ At(t, "update_book", "updated_book")
        /\ \E now \in Instants :
              /\ now >= clock
              /\ clock' = now
              /\ threads' = [threads EXCEPT ![t] =
                    [th EXCEPT !.pc = "store",
                               !.updated_book =
                                   <<[id |-> th.id,
                                      title |-> data["title"],
                                      author_id |-> data["author_id"],
                                      isbn |-> data["isbn"],
                                      published_year |-> data["published_year"],
                                      price |-> data["price"],
                                      stock |-> GetOr(data, "stock", 0),
                                      created_at |-> th.created_at[1],
                                      updated_at |-> isoformat(now)]>>]]
        /\ UNCHANGED <<books, authors, issued, req, resp, writes>>

\* "books[book_id] = updated_book" and the return
update_book_store(t) ==
    LET th == threads[t]
        updated_book == th.updated_book[1]
    IN  /\ At(t, "update_book", "store")
        /\ books' = DictSet(books, th.id, updated_book)
        /\ threads' = Unlink(t, th.id,
                             Returned(th, [status |-> 200, body |-> updated_book]))
        /\ UNCHANGED <<authors, clock, issued, req, resp, writes>>

\* "if book_id not in books", then get_json
partial_update_book_exists(t) ==
    LET th == threads[t]
    IN  /\ At(t, "partial_update_book", "exists")
        /\ threads' = [threads EXCEPT ![t] =
              IF ~Contains(books, th.id)
              THEN Returned(th, NotFound(books, "Book").resp)
              ELSE [th EXCEPT !.pc = "book"]]
        /\ UNCHANGED <<books, authors, clock, issued, req, resp, writes>>

\* "book = books[book_id]", then the tests "if key in data" up to the first
\* key the payload carries
partial_update_book_book(t) ==
    LET th == threads[t]
        n == NextField(th.data, 1)
    IN  /\ At(t, "partial_update_book", "book")
        /\ threads' = [threads EXCEPT ![t] =
              IF ~Contains(books, th.id)
              THEN Returned(th, KeyError)
              ELSE [th EXCEPT !.alias = TRUE, !.field = n,
                              !.pc = IF n = 0 THEN "updated_at" ELSE "field"]]
        /\ UNCHANGED <<books, authors, clock, issued, req, resp, writes>>

\* "book[key] = data[key]", then the tests up to the next key carried
partial_update_book_field(t) ==
    LET th == threads[t]
        key == PatchOrder[th.field]
        n == NextField(th.data, th.field + 1)
    IN  /\ At(t, "partial_update_book", "field")
        /\ SetItem(t, key, th.data[key],
                   [th EXCEPT !.field = n,
                              !.pc = IF n = 0 THEN "updated_at" ELSE "field"])
        /\ UNCHANGED <<authors, clock, issued, req, resp, writes>>

\* "book['updated_at'] = datetime.utcnow().isoformat() + 'Z'"
partial_update_book_updated_at(t) ==
    /\ At(t, "partial_update_book", "updated_at")
    /\ \E now \in Instants :
          /\ now >= clock
          /\ clock' = now
          /\ SetItem(t, "updated_at", isoformat(now),
                     [threads[t] EXCEPT !.pc = "return"])
    /\ UNCHANGED <<authors, issued, req, resp, writes>>

\* "return jsonify(book), 200"
partial_update_book_return(t) ==
    /\ At(t, "partial_update_book", "return")
    /\ threads' = [threads EXCEPT ![t] =
                      Returned(threads[t], [status |-> 200, body |-> Book(t)])]
    /\ UNCHANGED <<books, authors, clock, issued, req, resp, writes>>

\* "if book_id not in books"
delete_book_exists(t) ==
    LET th == threads[t]
    IN  /\ At(t, "delete_book", "exists")
        /\ threads' = [threads EXCEPT ![t] =
              IF ~Contains(books, th.id)
              THEN Returned(th, NotFound(books, "Book").resp)
              ELSE [th EXCEPT !.pc = "del"]]
        /\ UNCHANGED <<books, authors, clock, issued, req, resp, writes>>

\* "del books[book_id]" and the return
delete_book_del(t) ==
    LET th == threads[t]
    IN  /\ At(t, "delete_book", "del")
        /\ IF ~Contains(books, th.id)
           THEN /\ books' = books
                /\ threads' = [threads EXCEPT ![t] = Returned(th, KeyError)]
           ELSE /\ books' = DictDel(books, th.id)
                /\ threads' = Unlink(t, th.id,
                                     Returned(th, [status |-> 204, body |-> EmptyBody]))
        /\ UNCHANGED <<authors, clock, issued, req, resp, writes>>

NextThreaded ==
    \/ \E t \in Threads, book_id \in PathIds, data \in BookPayloads :
          dispatch(t, "update_book", book_id, data)
    \/ \E t \in Threads, book_id \in PathIds, data \in PatchPayloads :
          dispatch(t, "partial_update_book", book_id, data)
    \/ \E t \in Threads, book_id \in PathIds :
          dispatch(t, "delete_book", book_id, NoData)
    \/ \E t \in Threads : update_book_exists(t)
    \/ \E t \in Threads : update_book_created_at(t)
    \/ \E t \in Threads : update_book_updated_book(t)
    \/ \E t \in Threads : update_book_store(t)
    \/ \E t \in Threads : partial_update_book_exists(t)
    \/ \E t \in Threads : partial_update_book_book(t)
    \/ \E t \in Threads : partial_update_book_field(t)
    \/ \E t \in Threads : partial_update_book_updated_at(t)
    \/ \E t \in Threads : partial_update_book_return(t)
    \/ \E t \in Threads : delete_book_exists(t)
    \/ \E t \in Threads : delete_book_del(t)

Threaded == Init /\ [][NextThreaded]_vars

(***************************************************************************)
(* Properties                                                              *)
(***************************************************************************)
Missing(required_fields, data) ==
    {f \in Range(required_fields) : f \notin DOMAIN data}

\* field is missing from data and every required field listed before it is present
IsFirstMissing(required_fields, data, field) ==
    \E i \in DOMAIN required_fields :
        /\ required_fields[i] = field
        /\ field \notin DOMAIN data
        /\ \A j \in 1..(i - 1) : required_fields[j] \in DOMAIN data

TablesUnchanged == books' = books /\ authors' = authors

\* C1: PUT /books/{id} and PUT /authors/{id} on an id absent from the table
\* answer 404 whatever the payload (never 400) and leave both tables unchanged.
C1_ReplaceMissingIs404 ==
    [][ ( \/ req'.op = "update_book" /\ ~Contains(books, req'.id)
          \/ req'.op = "update_author" /\ ~Contains(authors, req'.id) )
        => (resp'.status = 404 /\ TablesUnchanged) ]_vars

\* a PUT on an absent book id with a payload that also lacks required fields
\* has been answered
C1_Witness ==
    /\ req.op = "update_book"
    /\ ~Contains(books, req.id)
    /\ Missing(BookRequired, req.data) # {}
    /\ resp.status = 404

\* C2: POST, and PUT on an existing id, with a payload lacking a required field
\* answer 400 "Missing required field: <first missing field>" and leave both
\* tables unchanged.
C2_MissingFieldIs400 ==
    [][ /\ ( ( /\ \/ req'.op = "create_book"
                  \/ req'.op = "update_book" /\ Contains(books, req'.id)
               /\ Missing(BookRequired, req'.data) # {} )
             => /\ resp'.status = 400
                /\ \E f \in Range(BookRequired) :
                      /\ IsFirstMissing(BookRequired, req'.data, f)
                      /\ resp'.body = [error |-> "Missing required field: " \o f]
                /\ TablesUnchanged )
        /\ ( ( /\ \/ req'.op = "create_author"
                  \/ req'.op = "update_author" /\ Contains(authors, req'.id)
               /\ Missing(AuthorRequired, req'.data) # {} )
             => /\ resp'.status = 400
                /\ \E f \in Range(AuthorRequired) :
                      /\ IsFirstMissing(AuthorRequired, req'.data, f)
                      /\ resp'.body = [error |-> "Missing required field: " \o f]
                /\ TablesUnchanged ) ]_vars

\* a PUT on an existing book whose payload lacks two required fields has been
\* refused, after the tables were already written to
C2_Witness ==
    /\ req.op = "update_book"
    /\ Contains(books, req.id)
    /\ Cardinality(Missing(BookRequired, req.data)) >= 2
    /\ resp.status = 400
    /\ writes > 0

\* the record r was inserted into table t, giving t2, under an id new to t
Inserted(t, t2, r) ==
    /\ ~Contains(t, r.id)
    /\ r.created_at = r.updated_at
    /\ Contains(t2, r.id)
    /\ DictGet(t2, r.id) = r
    /\ Len(t2) = Len(t) + 1
    /\ DictKeys(t2) = DictKeys(t) \cup {r.id}
    /\ \A k \in DictKeys(t) : DictGet(t2, k) = DictGet(t, k)

\* C3: a Create with every required field answers 201 with a record whose id
\* was in the table before for no record and whose created_at equals
\* updated_at; the table gains exactly that record and keeps the others.
C3_CreateInsertsFresh ==
    [][ /\ ( (req'.op = "create_book" /\ Missing(BookRequired, req'.data) = {})
             => /\ resp'.status = 201
                /\ Inserted(books, books', resp'.body)
                /\ authors' = authors )
        /\ ( (req'.op = "create_author" /\ Missing(AuthorRequired, req'.data) = {})
             => /\ resp'.status = 201
                /\ Inserted(authors, authors', resp'.body)
                /\ books' = books ) ]_vars

\* a second record has been created
C3_Witness ==
    /\ req.op = "create_book"
    /\ resp.status = 201
    /\ Cardinality(issued) = 2
    /\ Contains(books, resp.body.id)

\* every record of table t other than the one under key k is the same in t2
OthersUnchanged(t, t2, k) ==
    \A j \in DictKeys(t) \ {k} : Contains(t2, j) /\ DictGet(t2, j) = DictGet(t, j)

\* C4: PATCH on an existing book sets exactly the fields among BookFields that
\* are keys of the payload, restamps updated_at (never earlier than before,
\* also for an empty payload) and changes nothing else: id, created_at, the
\* other fields, the other books, the authors table; other keys are ignored.
C4_PatchFrame ==
    [][ (req'.op = "partial_update_book" /\ Contains(books, req'.id))
        => LET old == DictGet(books, req'.id)
               new == DictGet(books', req'.id)
               data == req'.data
           IN  /\ resp'.status = 200
               /\ resp'.body = new
               /\ DOMAIN new = DOMAIN old
               /\ \A f \in BookFields :
                     new[f] = IF f \in DOMAIN data THEN data[f] ELSE old[f]
               /\ new.id = old.id
               /\ new.created_at = old.created_at
               /\ new.updated_at = isoformat(clock')
               /\ TsLeq(old.updated_at, new.updated_at)
               /\ DictKeys(books') = DictKeys(books)
               /\ OthersUnchanged(books, books', req'.id)
               /\ authors' = authors ]_vars

\* an empty PATCH has been applied at a later instant than the book's last write
C4_Witness ==
    /\ req.op = "partial_update_book"
    /\ resp.status = 200
    /\ DOMAIN req.data = {}
    /\ resp.body.updated_at # resp.body.created_at

BookOpsOnId == {"get_book", "update_book", "partial_update_book", "delete_book"}
AuthorOpsOnId == {"get_author", "update_author", "delete_author"}

\* ids that have been keys of a table: the seed ids and the generated ones
EverUsed == SeedIds \cup issued

\* C5: DELETE on an existing id answers 204 and removes exactly that record;
\* an id that has left a table never returns to it, and GET, PUT, PATCH and
\* DELETE on an absent id answer 404.
C5_DeleteIsFinal ==
    [][ /\ (req'.op = "delete_book" /\ Contains(books, req'.id))
           => /\ resp'.status = 204
              /\ DictKeys(books') = DictKeys(books) \ {req'.id}
              /\ OthersUnchanged(books, books', req'.id)
              /\ authors' = authors
        /\ (req'.op = "delete_author" /\ Contains(authors, req'.id))
           => /\ resp'.status = 204
              /\ DictKeys(authors') = DictKeys(authors) \ {req'.id}
              /\ OthersUnchanged(authors, authors', req'.id)
              /\ books' = books
        /\ \A id \in EverUsed :
              /\ ~Contains(books, id) => ~Contains(books', id)
              /\ ~Contains(authors, id) => ~Contains(authors', id)
        /\ (req'.op \in BookOpsOnId /\ ~Contains(books, req'.id))
           => resp'.status = 404
        /\ (req'.op \in AuthorOpsOnId /\ ~Contains(authors, req'.id))
           => resp'.status = 404 ]_vars

\* book "1" was deleted, another book was created since, and a PATCH on "1"
\* has been answered 404
C5_Witness ==
    /\ ~Contains(books, "1")
    /\ \E id \in issued : Contains(books, id)
    /\ req.op = "partial_update_book"
    /\ req.id = "1"
    /\ resp.status = 404

BookOps == BookOpsOnId \cup {"get_books", "create_book"}

\* C6: GET /authors/{id}/books for a present author answers 200 with the
\* author's record, exactly the books whose author_id is the id, and their
\* number; GET /authors/{id} answers 200; no book handler changes authors.
C6_AuthorBooks ==
    [][ /\ (req'.op = "get_author_books" /\ Contains(authors, req'.id))
           => LET body == resp'.body
                  mine == {k \in DictKeys(books) : DictGet(books, k).author_id = req'.id}
              IN  /\ resp'.status = 200
                  /\ body.author = DictGet(authors, req'.id)
                  /\ {body.books[i] : i \in DOMAIN body.books}
                        = {DictGet(books, k) : k \in mine}
                  /\ Len(body.books) = Cardinality(mine)
                  /\ body.count = Cardinality(mine)
                  /\ TablesUnchanged
        /\ (req'.op = "get_author" /\ Contains(authors, req'.id))
           => /\ resp'.status = 200
              /\ resp'.body = DictGet(authors, req'.id)
        /\ req'.op \in BookOps => authors' = authors ]_vars

\* the only book of author "1" was deleted and the author's books were listed
C6_Witness ==
    /\ req.op = "get_author_books"
    /\ req.id = "1"
    /\ resp.status = 200
    /\ resp.body.count = 0
    /\ resp.body.books = <<>>
    /\ ~Contains(books, "1")

ContentFields == BookFields \cup {"id", "created_at"}

\* C7: right after a successful PUT on a book, the same PUT again answers 200
\* and leaves id, the six fields and created_at as they are; updated_at does
\* not go back.
C7_PutIdempotent ==
    (req.op = "update_book" /\ resp.status = 200)
    => \A now \in Instants :
          now >= clock
          => LET first == DictGet(books, req.id)
                 again == do_update_book(books, req.id, req.data, now)
                 second == DictGet(again.table, req.id)
             IN  /\ again.resp.status = 200
                 /\ \A f \in ContentFields : second[f] = first[f]
                 /\ TsLeq(first.updated_at, second.updated_at)
                 /\ OthersUnchanged(books, again.table, req.id)
                 /\ DictKeys(again.table) = DictKeys(books)

\* a PUT without stock has succeeded on a book, early enough for the repeat to
\* be stamped later
C7_Witness ==
    /\ req.op = "update_book"
    /\ resp.status = 200
    /\ "stock" \notin DOMAIN req.data
    /\ \E now \in Instants : now > clock

\* the query parameter was sent with this request
Provided(arg) == arg # <<>>

\* C8: GET /books answers with exactly the books that pass every provided
\* filter (author_id equal to the value sent, price >= min_price, price <=
\* max_price), and count is their number.
C8_ListFilters ==
    req.op = "get_books"
    => LET args == req.args
           min_price == ToFloat(args.min_price)
           max_price == ToFloat(args.max_price)
           passes(b) ==
               /\ Provided(args.author_id) => b.author_id = args.author_id[1]
               /\ Provided(min_price) => b.price >= min_price[1]
               /\ Provided(max_price) => b.price <= max_price[1]
           expected == {k \in DictKeys(books) : passes(DictGet(books, k))}
           body == resp.body
       IN  /\ resp.status = 200
           /\ {body.books[i] : i \in DOMAIN body.books}
                 = {DictGet(books, k) : k \in expected}
           /\ Len(body.books) = Cardinality(expected)
           /\ body.count = Cardinality(expected)

Tables == {books, authors}

CreatedLeqUpdated ==
    \A t \in Tables : \A i \in DOMAIN t :
        TsLeq(t[i].value.created_at, t[i].value.updated_at)

CreatedAtKept(t, t2) ==
    \A k \in DictKeys(t) \cap DictKeys(t2) :
        DictGet(t2, k).created_at = DictGet(t, k).created_at

\* C9: every record has created_at <= updated_at, and no step changes the
\* created_at of a record that stays in its table.
C9_Timestamps ==
    /\ []CreatedLeqUpdated
    /\ [][CreatedAtKept(books, books') /\ CreatedAtKept(authors, authors')]_vars

\* a book created by POST was later written again, at a later instant
C9_Witness ==
    \E id \in issued :
        /\ Contains(books, id)
        /\ DictGet(books, id).created_at # DictGet(books, id).updated_at
        /\ req.id = id
        /\ resp.status = 200

KeysAreIds(t) == \A i \in DOMAIN t : t[i].value.id = t[i].key

KeysUnique(t) == \A i, j \in DOMAIN t : t[i].key = t[j].key => i = j

KeySeq(t) == [i \in DOMAIN t |-> t[i].key]

\* C10: in each table every key maps to a record whose id is that key and no
\* key occurs twice; PUT and PATCH change neither keys nor ids.
C10_IdsAreKeys ==
    /\ [](\A t \in Tables : KeysAreIds(t) /\ KeysUnique(t))
    /\ [][ req'.op \in {"update_book", "partial_update_book", "update_author"}
           => /\ KeySeq(books') = KeySeq(books)
              /\ KeySeq(authors') = KeySeq(authors)
              /\ (resp'.status = 200 => resp'.body.id = req'.id) ]_vars

\* a PUT whose payload carries an id key has succeeded
C10_Witness ==
    /\ req.op = "update_book"
    /\ "id" \in DOMAIN req.data
    /\ req.data["id"] # req.id
    /\ resp.status = 200
    /\ DictGet(books, req.id) = resp.body

\* the books of table t whose author_id is a
BooksOf(t, a) == {DictGet(t, k) : k \in {j \in DictKeys(t) : DictGet(t, j).author_id = a}}

Listed(body) == {body.books[i] : i \in DOMAIN body.books}

\* C11: DELETE /authors/{id} leaves the books table as it is; GET /books and
\* GET /books?author_id=<id> still return the books naming an author that is
\* gone, GET /authors/{id}/books answers 404 for it, and POST, PUT and PATCH
\* of a book succeed when author_id names no author.
C11_NoReferentialIntegrity ==
    /\ [][ /\ (req'.op = "delete_author" /\ Contains(authors, req'.id))
              => (resp'.status = 204 /\ books' = books)
           /\ (req'.op = "get_author_books" /\ ~Contains(authors, req'.id))
              => resp'.status = 404
           /\ ( /\ req'.op = "create_book"
                /\ Missing(BookRequired, req'.data) = {}
                /\ ~Contains(authors, req'.data["author_id"]) )
              => (resp'.status = 201 /\ Contains(books', resp'.body.id))
           /\ ( /\ req'.op = "update_book"
                /\ Contains(books, req'.id)
                /\ Missing(BookRequired, req'.data) = {}
                /\ ~Contains(authors, req'.data["author_id"]) )
              => ( /\ resp'.status = 200
                   /\ DictGet(books', req'.id).author_id = req'.data["author_id"] )
           /\ ( /\ req'.op = "partial_update_book"
                /\ Contains(books, req'.id)
                /\ "author_id" \in DOMAIN req'.data
                /\ ~Contains(authors, req'.data["author_id"]) )
              => ( /\ resp'.status = 200
                   /\ DictGet(books', req'.id).author_id = req'.data["author_id"] )
         ]_vars
    /\ [] ( ( /\ req.op = "get_books"
              /\ req.args.min_price = <<>>
              /\ req.args.max_price = <<>> )
            => \A a \in EverUsed \ DictKeys(authors) :
                  /\ req.args.author_id = <<>>
                     => BooksOf(books, a) \subseteq Listed(resp.body)
                  /\ req.args.author_id = <<a>>
                     => Listed(resp.body) = BooksOf(books, a) )

\* author "1" was deleted, book "1" still names it, and a new book naming it
\* has been created
C11_Witness ==
    /\ ~Contains(authors, "1")
    /\ Contains(books, "1")
    /\ DictGet(books, "1").author_id = "1"
    /\ req.op = "create_book"
    /\ resp.status = 201
    /\ resp.body.author_id = "1"

Stamps == {"id", "created_at", "updated_at"}

\* C12: a PUT on an existing book with every required field answers 200 with
\* the record it stored: title, author_id, isbn, published_year and price are
\* the payload's, stock is the payload's or 0 when the payload has none, id and
\* created_at are the old record's, updated_at is the new reading of the clock
\* and the record has no other field. The same holds for PUT on an author with
\* name, birth_year and nationality.
C12_PutReplaces ==
    [][ /\ ( req'.op = "update_book" /\ Contains(books, req'.id)
             /\ Missing(BookRequired, req'.data) = {} )
           => LET old == DictGet(books, req'.id)
                  new == DictGet(books', req'.id)
              IN  /\ resp'.status = 200
                  /\ resp'.body = new
                  /\ DOMAIN new = BookFields \cup Stamps
                  /\ \A f \in Range(BookRequired) : new[f] = req'.data[f]
                  /\ new.stock = IF "stock" \in DOMAIN req'.data
                                 THEN req'.data["stock"] ELSE 0
                  /\ new.id = req'.id
                  /\ new.id = old.id
                  /\ new.created_at = old.created_at
                  /\ new.updated_at = isoformat(clock')
        /\ ( req'.op = "update_author" /\ Contains(authors, req'.id)
             /\ Missing(AuthorRequired, req'.data) = {} )
           => LET old == DictGet(authors, req'.id)
                  new == DictGet(authors', req'.id)
              IN  /\ resp'.status = 200
                  /\ resp'.body = new
                  /\ DOMAIN new = AuthorFields \cup Stamps
                  /\ \A f \in AuthorFields : new[f] = req'.data[f]
                  /\ new.id = req'.id
                  /\ new.id = old.id
                  /\ new.created_at = old.created_at
                  /\ new.updated_at = isoformat(clock')
      ]_vars

\* the first write is a PUT without stock on seed book "1", whose stock was 42
C12_Witness ==
    /\ writes = 1
    /\ req.op = "update_book"
    /\ req.id = "1"
    /\ req.data = Payload(Range(BookRequired))
    /\ resp.status = 200
    /\ resp.body.stock = 0
    /\ DictGet(books, "1") = resp.body

\* the handler of thread t's request, run in one step on table bks at time now
Handle(bks, t, now) ==
    LET th == threads[t]
    IN  CASE th.op = "update_book" -> do_update_book(bks, th.id, th.data, now)
          [] th.op = "partial_update_book" ->
                do_partial_update_book(bks, th.id, th.data, now)
          [] th.op = "delete_book" -> do_delete_book(bks, th.id)

\* tables and responses that serving the requests of the threads in todo one
\* after the other, in any order, can end with, from table bks at time clk
RECURSIVE Serial(_, _, _)
Serial(bks, clk, todo) ==
    IF todo = {} THEN {[table |-> bks, resp |-> <<>>]}
    ELSE UNION { LET r == Handle(bks, pick[1], pick[2])
                 IN  { [table |-> rest.table, resp |-> (pick[1] :> r.resp) @@ rest.resp] :
                       rest \in Serial(r.table, IF r.stamped THEN pick[2] ELSE clk,
                                       todo \ {pick[1]}) } :
                 pick \in todo \X {now \in Instants : now >= clk} }

AllReturned == \A t \in Threads : threads[t].pc = "done"

\* C13: each handler acts as one atomic step on the books table.  When every
\* request in flight has returned, the table and the responses are those of
\* serving the requests one after the other in some order; a book whose
\* DELETE has returned 204 is not in the table; and no PUT or PATCH returns
\* 200 for a book that is not in the table when it returns.
C13_HandlersAtomic ==
    /\ [] ( AllReturned
            => [table |-> books, resp |-> [t \in Threads |-> threads[t].resp]]
                  \in Serial(SeedBooks, 0, Threads) )
    /\ [] ( \A t \in Threads :
               (threads[t].op = "delete_book" /\ threads[t].resp.status = 204)
               => ~Contains(books, threads[t].id) )
    /\ [][ \A t \in Threads :
              ( /\ threads[t].op \in {"update_book", "partial_update_book"}
                /\ threads[t].pc # "done"
                /\ threads'[t].pc = "done"
                /\ threads'[t].resp.status = 200 )
              => Contains(books', threads[t].id) ]_vars

====
